---- MODULE Spec2Model ----
(***************************************************************************)
(* Genome / gene decoders / Organism of geonot/engenca.                    *)
(*                                                                         *)
(* Objects live in a heap: heap[id] is the byte buffer (Genome.data) of    *)
(* the Genome object id.  g is the caller's own reference to a Genome      *)
(* (0 = the caller holds none), org is the one Organism of the session.    *)
(* last records the most recent call: its name, the Genome object it was   *)
(* made on (self; a method sees the object, not the variable that named    *)
(* it), its arguments, how it ended (kind) and what it returned.  A call   *)
(* is one step; Return is the caller taking the result before the next.    *)
(*                                                                         *)
(* An optional Python value (x | None) is a sequence: <<>> is None and     *)
(* <<x>> is x.  A bytes object is a sequence of integers, so Python's      *)
(* data[k] is data[k + 1] here.                                            *)
(***************************************************************************)
EXTENDS Integers, Sequences, FiniteSets, TLC

VARIABLES heap, g, org, last

vars == <<heap, g, org, last>>

-----------------------------------------------------------------------------
(* Bounds of the model *)

\* longest genome buffer of the Genome/decoder specification
MaxLen == 3
\* longest genome buffer of the Organism specification
MaxOrgLen == 9

\* byte values the buffers, the explicit mutations and the random source draw from
ByteSamples == {0, 1, 255}
\* byte values of the Organism specification
OrgByteSamples == {0, 255}

-----------------------------------------------------------------------------
(* Program constants *)

MaxByte == 255

COLOR_GENE_START == 0
COLOR_GENE_LENGTH == 4
COLOR_OPTIONS ==
  <<"red", "green", "blue", "yellow", "purple", "orange", "pink", "brown", "black", "white">>
SIZE_GENE1_START == COLOR_GENE_START + COLOR_GENE_LENGTH
SIZE_GENE1_LENGTH == 2
SIZE_GENE2_START == SIZE_GENE1_START + SIZE_GENE1_LENGTH
SIZE_GENE2_LENGTH == 2
SIZE_MAX_VALUE == 100
MIN_GENOME_SIZE == SIZE_GENE2_START + SIZE_GENE2_LENGTH

-----------------------------------------------------------------------------
(* Python primitives *)

None == <<>>

Some(x) == <<x>>

Min(a, b) == IF a < b THEN a ELSE b

Max(a, b) == IF a < b THEN b ELSE a

\* all sequences over S of length exactly n
SeqsOfLen(S, n) == [1..n -> S]

\* all sequences over S of length at most n
SeqsUpTo(S, n) == UNION {SeqsOfLen(S, k) : k \in 0..n}

\* Python's s[i:j] on a bytes object: negative bounds count from the end,
\* both bounds are clamped to [0, len(s)], an empty range gives b''
SliceBound(s, x) == IF x < 0 THEN Max(x + Len(s), 0) ELSE Min(x, Len(s))

PySlice(s, i, j) ==
  LET lo == SliceBound(s, i)
      hi == SliceBound(s, j)
  IN  [k \in 1..Max(hi - lo, 0) |-> s[lo + k]]

\* Python's sum() over a bytes object
RECURSIVE PySum(_)
PySum(s) == IF s = <<>> THEN 0 ELSE s[1] + PySum(Tail(s))

\* Python's d[k] = v on a dict
DictSet(d, k, v) == [x \in (DOMAIN d) \cup {k} |-> IF x = k THEN v ELSE d[x]]

EmptyDict == [x \in {} |-> None]

-----------------------------------------------------------------------------
(* genome.py *)

\* Genome.__init__(size, data): data is None or Some(bytes); rnd is what
\* os.urandom(size) returns when it is called
GenomeInit(size, data, rnd) ==
  IF data # None
  THEN [kind |-> "ok", data |-> data[1]]
  ELSE IF size < 0
       THEN [kind |-> "ValueError", data |-> <<>>]
       ELSE [kind |-> "ok", data |-> rnd]

\* get_gene with the slice ending one byte early
get_gene_ShortSlice(data, start_index, length) ==
  IF \/ ~(0 <= start_index /\ start_index < Len(data))
     \/ ~(0 < length)
     \/ ~(start_index + length <= Len(data))
  THEN [kind |-> "IndexError", value |-> <<>>]
  ELSE [kind |-> "ok", value |-> PySlice(data, start_index, start_index + length - 1)]

\* get_gene accepting a zero length
get_gene_ZeroLength(data, start_index, length) ==
  IF \/ ~(0 <= start_index /\ start_index < Len(data))
     \/ ~(0 <= length)
     \/ ~(start_index + length <= Len(data))
  THEN [kind |-> "IndexError", value |-> <<>>]
  ELSE [kind |-> "ok", value |-> PySlice(data, start_index, start_index + length)]

\* Genome.get_gene(start_index, length) on the buffer data
get_gene(data, start_index, length) ==
  IF \/ ~(0 <= start_index /\ start_index < Len(data))
     \/ ~(0 < length)
     \/ ~(start_index + length <= Len(data))
  THEN [kind |-> "IndexError", value |-> <<>>]
  ELSE [kind |-> "ok", value |-> PySlice(data, start_index, start_index + length)]

\* mutate_byte writing at the index counted from the end of the buffer
mutate_byte_FromEnd(data, index, new_byte_value, rnd) ==
  IF ~(0 <= index /\ index < Len(data))
  THEN [kind |-> "IndexError", data |-> data]
  ELSE IF new_byte_value # None
       THEN IF ~(0 <= new_byte_value[1] /\ new_byte_value[1] <= MaxByte)
            THEN [kind |-> "ValueError", data |-> data]
            ELSE [kind |-> "ok",
                  data |-> [data EXCEPT ![Len(data) - index] = new_byte_value[1]]]
       ELSE [kind |-> "ok", data |-> [data EXCEPT ![Len(data) - index] = rnd]]

\* mutate_byte validating the value before the index
mutate_byte_ValueFirst(data, index, new_byte_value, rnd) ==
  IF new_byte_value # None /\ ~(0 <= new_byte_value[1] /\ new_byte_value[1] <= MaxByte)
  THEN [kind |-> "ValueError", data |-> data]
  ELSE IF ~(0 <= index /\ index < Len(data))
       THEN [kind |-> "IndexError", data |-> data]
       ELSE IF new_byte_value # None
            THEN [kind |-> "ok", data |-> [data EXCEPT ![index + 1] = new_byte_value[1]]]
            ELSE [kind |-> "ok", data |-> [data EXCEPT ![index + 1] = rnd]]

\* mutate_byte drawing its random byte from 1..256
mutate_byte_RandomOffByOne(data, index, new_byte_value, rnd) ==
  IF ~(0 <= index /\ index < Len(data))
  THEN [kind |-> "IndexError", data |-> data]
  ELSE IF new_byte_value # None
       THEN IF ~(0 <= new_byte_value[1] /\ new_byte_value[1] <= MaxByte)
            THEN [kind |-> "ValueError", data |-> data]
            ELSE [kind |-> "ok", data |-> [data EXCEPT ![index + 1] = new_byte_value[1]]]
       ELSE [kind |-> "ok", data |-> [data EXCEPT ![index + 1] = rnd + 1]]

\* mutate_byte without the range check on the value
mutate_byte_NoValueCheck(data, index, new_byte_value, rnd) ==
  IF ~(0 <= index /\ index < Len(data))
  THEN [kind |-> "IndexError", data |-> data]
  ELSE IF new_byte_value # None
       THEN [kind |-> "ok", data |-> [data EXCEPT ![index + 1] = new_byte_value[1]]]
       ELSE [kind |-> "ok", data |-> [data EXCEPT ![index + 1] = rnd]]

\* Genome.mutate_byte(index, new_byte_value) on the buffer data:
\* new_byte_value is None or Some(int), rnd is what random.randint(0, 255) draws
mutate_byte(data, index, new_byte_value, rnd) ==
  IF ~(0 <= index /\ index < Len(data))
  THEN [kind |-> "IndexError", data |-> data]
  ELSE IF new_byte_value # None
       THEN IF ~(0 <= new_byte_value[1] /\ new_byte_value[1] <= MaxByte)
            THEN [kind |-> "ValueError", data |-> data]
            ELSE [kind |-> "ok", data |-> [data EXCEPT ![index + 1] = new_byte_value[1]]]
       ELSE [kind |-> "ok", data |-> [data EXCEPT ![index + 1] = rnd]]

-----------------------------------------------------------------------------
(* gene_decoder.py *)

\* decode_simple_attribute summing the bytes in a one-byte accumulator
decode_simple_attribute_ByteSum(data, gene_start, gene_length, attribute_options) ==
  IF attribute_options = <<>>
  THEN [kind |-> "return", value |-> None]
  ELSE LET gene == get_gene(data, gene_start, gene_length)
       IN  IF gene.kind = "IndexError"
           THEN [kind |-> "return", value |-> None]
           ELSE IF gene.kind # "ok"
           THEN [kind |-> gene.kind, value |-> None]
           ELSE IF gene.value = <<>>
           THEN [kind |-> "return", value |-> None]
           ELSE LET sum_of_bytes == PySum(gene.value) % (MaxByte + 1)
                    selected_index == sum_of_bytes % Len(attribute_options)
                IN  [kind |-> "return", value |-> Some(attribute_options[selected_index + 1])]

\* decode_simple_attribute without the try/except around get_gene
decode_simple_attribute_NoExcept(data, gene_start, gene_length, attribute_options) ==
  IF attribute_options = <<>>
  THEN [kind |-> "return", value |-> None]
  ELSE LET gene == get_gene(data, gene_start, gene_length)
       IN  IF gene.kind # "ok"
           THEN [kind |-> gene.kind, value |-> None]
           ELSE IF gene.value = <<>>
           THEN [kind |-> "return", value |-> None]
           ELSE LET sum_of_bytes == PySum(gene.value)
                    selected_index == sum_of_bytes % Len(attribute_options)
                IN  [kind |-> "return", value |-> Some(attribute_options[selected_index + 1])]

\* decode_simple_attribute(genome, gene_start, gene_length, attribute_options),
\* genome.data being data.  kind is "return" when the call returns and the name
\* of the exception when one leaves the function; only IndexError is caught.
decode_simple_attribute(data, gene_start, gene_length, attribute_options) ==
  IF attribute_options = <<>>
  THEN [kind |-> "return", value |-> None]
  ELSE LET gene == get_gene(data, gene_start, gene_length)
       IN  IF gene.kind = "IndexError"
           THEN [kind |-> "return", value |-> None]
           ELSE IF gene.kind # "ok"
           THEN [kind |-> gene.kind, value |-> None]
           ELSE IF gene.value = <<>>
           THEN [kind |-> "return", value |-> None]
           ELSE LET sum_of_bytes == PySum(gene.value)
                    selected_index == sum_of_bytes % Len(attribute_options)
                IN  [kind |-> "return", value |-> Some(attribute_options[selected_index + 1])]

\* the arithmetic of decode_interacting_genes with the product kept in 16 bits
CombineGenes_Wrap16(sum_gene1, sum_gene2, max_value) ==
  LET combined_value == (sum_gene1 * sum_gene2) % 65536
  IN  combined_value % max_value

\* the arithmetic of decode_interacting_genes: Python integers are unbounded
CombineGenes(sum_gene1, sum_gene2, max_value) ==
  LET combined_value == sum_gene1 * sum_gene2
  IN  combined_value % max_value

\* decode_interacting_genes(genome, gene1_start, gene1_length, gene2_start,
\* gene2_length, max_value): both get_gene calls sit in one try block
decode_interacting_genes(data, gene1_start, gene1_length, gene2_start, gene2_length, max_value) ==
  IF max_value <= 0
  THEN [kind |-> "return", value |-> None]
  ELSE LET gene1 == get_gene(data, gene1_start, gene1_length)
           gene2 == get_gene(data, gene2_start, gene2_length)
       IN  IF gene1.kind = "IndexError" \/ (gene1.kind = "ok" /\ gene2.kind = "IndexError")
           THEN [kind |-> "return", value |-> None]
           ELSE IF gene1.kind # "ok"
           THEN [kind |-> gene1.kind, value |-> None]
           ELSE IF gene2.kind # "ok"
           THEN [kind |-> gene2.kind, value |-> None]
           ELSE IF gene1.value = <<>> \/ gene2.value = <<>>
           THEN [kind |-> "return", value |-> None]
           ELSE [kind |-> "return",
                 value |-> Some(CombineGenes(PySum(gene1.value), PySum(gene2.value), max_value))]

-----------------------------------------------------------------------------
(* organism.py *)

\* decode_attributes keeping a trait that is already in the map
decode_attributes_KeepExisting(data, attributes) ==
  LET color == decode_simple_attribute(data, COLOR_GENE_START, COLOR_GENE_LENGTH, COLOR_OPTIONS)
      size == decode_interacting_genes(data, SIZE_GENE1_START, SIZE_GENE1_LENGTH,
                                       SIZE_GENE2_START, SIZE_GENE2_LENGTH, SIZE_MAX_VALUE)
      withColor == IF "color" \in DOMAIN attributes
                   THEN attributes
                   ELSE DictSet(attributes, "color", color.value)
  IN  [kind |-> "ok",
       attributes |-> IF "size" \in DOMAIN withColor
                      THEN withColor
                      ELSE DictSet(withColor, "size", size.value)]

\* decode_attributes adding the decoded size to the size already in the map
decode_attributes_Accumulate(data, attributes) ==
  LET color == decode_simple_attribute(data, COLOR_GENE_START, COLOR_GENE_LENGTH, COLOR_OPTIONS)
      size == decode_interacting_genes(data, SIZE_GENE1_START, SIZE_GENE1_LENGTH,
                                       SIZE_GENE2_START, SIZE_GENE2_LENGTH, SIZE_MAX_VALUE)
      withColor == DictSet(attributes, "color", color.value)
      total == IF "size" \in DOMAIN attributes /\ attributes["size"] # None /\ size.value # None
               THEN Some(attributes["size"][1] + size.value[1])
               ELSE size.value
  IN  [kind |-> "ok", attributes |-> DictSet(withColor, "size", total)]

\* decode_attributes reading one byte too many for the colour
decode_attributes_WideColor(data, attributes) ==
  LET color == decode_simple_attribute(data, COLOR_GENE_START, COLOR_GENE_LENGTH + 1,
                                       COLOR_OPTIONS)
      size == decode_interacting_genes(data, SIZE_GENE1_START, SIZE_GENE1_LENGTH,
                                       SIZE_GENE2_START, SIZE_GENE2_LENGTH, SIZE_MAX_VALUE)
  IN  [kind |-> "ok",
       attributes |-> DictSet(DictSet(attributes, "color", color.value), "size", size.value)]

\* Organism.decode_attributes(): the two item assignments on self.attributes,
\* genome.data being data; an exception leaving a decoder leaves the method
decode_attributes(data, attributes) ==
  LET color == decode_simple_attribute(data, COLOR_GENE_START, COLOR_GENE_LENGTH, COLOR_OPTIONS)
  IN  IF color.kind # "return"
      THEN [kind |-> color.kind, attributes |-> attributes]
      ELSE LET withColor == DictSet(attributes, "color", color.value)
               size == decode_interacting_genes(data, SIZE_GENE1_START, SIZE_GENE1_LENGTH,
                                                SIZE_GENE2_START, SIZE_GENE2_LENGTH,
                                                SIZE_MAX_VALUE)
           IN  IF size.kind # "return"
               THEN [kind |-> size.kind, attributes |-> withColor]
               ELSE [kind |-> "ok", attributes |-> DictSet(withColor, "size", size.value)]

\* os.urandom(size) on the entropy the operating system has ready
urandom(entropy, size) == SubSeq(entropy, 1, size)

\* the requested size passed on as it is
AdjustedGenomeSize_NoClamp(genome_size) == genome_size

\* the size Organism.__init__ asks Genome(size = ...) for
AdjustedGenomeSize(genome_size) ==
  IF genome_size < MIN_GENOME_SIZE THEN MIN_GENOME_SIZE ELSE genome_size

\* Organism.__init__ binding a copy of the caller's Genome
BindGenome_Copy(h, genome_size, genome_instance, entropy) ==
  IF genome_instance # None
  THEN IF Len(h[genome_instance[1]]) < MIN_GENOME_SIZE
       THEN [kind |-> "ValueError", heap |-> h, genome |-> 0]
       ELSE [kind |-> "ok", heap |-> Append(h, h[genome_instance[1]]), genome |-> Len(h) + 1]
  ELSE LET size == AdjustedGenomeSize(genome_size)
           made == GenomeInit(size, None, urandom(entropy, size))
       IN  IF made.kind # "ok"
           THEN [kind |-> made.kind, heap |-> h, genome |-> 0]
           ELSE [kind |-> "ok", heap |-> Append(h, made.data), genome |-> Len(h) + 1]

\* Organism.__init__ taking the caller's Genome whatever its length
BindGenome_NoMinimum(h, genome_size, genome_instance, entropy) ==
  IF genome_instance # None
  THEN [kind |-> "ok", heap |-> h, genome |-> genome_instance[1]]
  ELSE LET size == AdjustedGenomeSize(genome_size)
           made == GenomeInit(size, None, urandom(entropy, size))
       IN  IF made.kind # "ok"
           THEN [kind |-> made.kind, heap |-> h, genome |-> 0]
           ELSE [kind |-> "ok", heap |-> Append(h, made.data), genome |-> Len(h) + 1]

\* the Genome Organism.__init__ binds to self.genome: genome_instance is None or
\* Some(id of a Genome in the heap h).  The result is the heap and the id bound.
BindGenome(h, genome_size, genome_instance, entropy) ==
  IF genome_instance # None
  THEN IF Len(h[genome_instance[1]]) < MIN_GENOME_SIZE
       THEN [kind |-> "ValueError", heap |-> h, genome |-> 0]
       ELSE [kind |-> "ok", heap |-> h, genome |-> genome_instance[1]]
  ELSE LET size == AdjustedGenomeSize(genome_size)
           made == GenomeInit(size, None, urandom(entropy, size))
       IN  IF made.kind # "ok"
           THEN [kind |-> made.kind, heap |-> h, genome |-> 0]
           ELSE [kind |-> "ok", heap |-> Append(h, made.data), genome |-> Len(h) + 1]

\* Organism.__init__(genome_size, genome_instance): bind the genome, then
\* self.attributes = {} and self.decode_attributes()
OrganismInit(h, genome_size, genome_instance, entropy) ==
  LET bound == BindGenome(h, genome_size, genome_instance, entropy)
  IN  IF bound.kind # "ok"
      THEN [kind |-> bound.kind, heap |-> bound.heap,
            org |-> [alive |-> FALSE, genome |-> 0, attributes |-> EmptyDict]]
      ELSE LET decoded == decode_attributes(bound.heap[bound.genome], EmptyDict)
           IN  IF decoded.kind # "ok"
               THEN [kind |-> decoded.kind, heap |-> bound.heap,
                     org |-> [alive |-> FALSE, genome |-> 0, attributes |-> EmptyDict]]
               ELSE [kind |-> "ok", heap |-> bound.heap,
                     org |-> [alive |-> TRUE, genome |-> bound.genome,
                              attributes |-> decoded.attributes]]

-----------------------------------------------------------------------------
(* The calls a caller can make *)

\* no call outstanding: the caller has consumed the previous result
Idle == [op |-> "idle", self |-> 0, args |-> <<>>, kind |-> "ok", value |-> <<>>]

\* no Organism has been constructed
NoOrg == [alive |-> FALSE, genome |-> 0, attributes |-> EmptyDict]

\* the Genome objects the caller can reach
Objects == 1..Len(heap)

\* genome.get_gene(start_index, length)
GetGene(self, start_index, length) ==
  /\ last = Idle
  /\ self \in Objects
  /\ LET r == get_gene(heap[self], start_index, length)
     IN  last' = [op |-> "get_gene", self |-> self, args |-> <<start_index, length>>,
                  kind |-> r.kind, value |-> r.value]
  /\ UNCHANGED <<heap, g, org>>

\* genome.mutate_byte(index, new_byte_value)
MutateByte(self, index, new_byte_value, rnd) ==
  /\ last = Idle
  /\ self \in Objects
  /\ LET r == mutate_byte(heap[self], index, new_byte_value, rnd)
     IN  /\ heap' = [heap EXCEPT ![self] = r.data]
         /\ last' = [op |-> "mutate_byte", self |-> self, args |-> <<index, new_byte_value>>,
                     kind |-> r.kind, value |-> <<>>]
  /\ UNCHANGED <<g, org>>

\* decode_simple_attribute(genome, gene_start, gene_length, attribute_options)
DecodeSimpleAttribute(self, gene_start, gene_length, attribute_options) ==
  /\ last = Idle
  /\ self \in Objects
  /\ LET r == decode_simple_attribute(heap[self], gene_start, gene_length, attribute_options)
     IN  last' = [op |-> "decode_simple_attribute", self |-> self,
                  args |-> <<gene_start, gene_length, attribute_options>>,
                  kind |-> r.kind, value |-> r.value]
  /\ UNCHANGED <<heap, g, org>>

\* decode_interacting_genes(genome, gene1_start, gene1_length, gene2_start,
\* gene2_length, max_value)
DecodeInteractingGenes(self, gene1_start, gene1_length, gene2_start, gene2_length, max_value) ==
  /\ last = Idle
  /\ self \in Objects
  /\ LET r == decode_interacting_genes(heap[self], gene1_start, gene1_length,
                                       gene2_start, gene2_length, max_value)
     IN  last' = [op |-> "decode_interacting_genes", self |-> self,
                  args |-> <<gene1_start, gene1_length, gene2_start, gene2_length, max_value>>,
                  kind |-> r.kind, value |-> r.value]
  /\ UNCHANGED <<heap, g, org>>

\* org = Organism(genome_size, genome_instance)
NewOrganism(genome_size, genome_instance, entropy) ==
  /\ last = Idle
  /\ ~org.alive
  /\ genome_instance # None => genome_instance[1] \in Objects
  /\ LET r == OrganismInit(heap, genome_size, genome_instance, entropy)
     IN  /\ heap' = r.heap
         /\ org' = r.org
         /\ last' = [op |-> "Organism", self |-> r.org.genome,
                     args |-> <<genome_size, genome_instance>>,
                     kind |-> r.kind, value |-> <<>>]
  /\ UNCHANGED g

\* org.decode_attributes()
DecodeAttributes ==
  /\ last = Idle
  /\ org.alive
  /\ LET r == decode_attributes(heap[org.genome], org.attributes)
     IN  /\ org' = [org EXCEPT !.attributes = r.attributes]
         /\ last' = [op |-> "decode_attributes", self |-> org.genome, args |-> <<>>,
                     kind |-> r.kind, value |-> <<>>]
  /\ UNCHANGED <<heap, g>>

\* the caller takes the result of the call and is ready for the next one
Return ==
  /\ last # Idle
  /\ last' = Idle
  /\ UNCHANGED <<heap, g, org>>

-----------------------------------------------------------------------------
(* Genome and decoders: one Genome, built by the caller, and every call on it *)

\* start_index / gene_start arguments
StartArgs == -1..MaxLen

\* length / gene_length arguments
LengthArgs == -1..(MaxLen + 1)

\* the segment arguments of decode_interacting_genes (two segments a call)
Start2Args == -1..MaxLen

Length2Args == 0..MaxLen

\* index arguments of mutate_byte
IndexArgs == -1..MaxLen

\* new_byte_value arguments of mutate_byte: omitted, in range, out of range
ValueArgs == {None} \cup {Some(v) : v \in ByteSamples \cup {-1, MaxByte + 1}}

\* attribute_options arguments: prefixes of the colour list, the empty one included
OptionArgs == {SubSeq(COLOR_OPTIONS, 1, n) : n \in {0, 1, 3, 5, 10}}

\* max_value arguments
MaxValueArgs == {-1, 0, 7, SIZE_MAX_VALUE}

\* g = Genome(data = d) or g = Genome(size = n)
Init ==
  /\ \E size \in 0..MaxLen, d \in {None} \cup {Some(b) : b \in SeqsUpTo(ByteSamples, MaxLen)} :
       \E rnd \in SeqsOfLen(ByteSamples, size) :
          LET r == GenomeInit(size, d, rnd)
          IN  r.kind = "ok" /\ heap = <<r.data>>
  /\ g = 1
  /\ org = NoOrg
  /\ last = Idle

Next ==
  \/ /\ last = Idle
     /\ \E start \in StartArgs, length \in LengthArgs : GetGene(g, start, length)
  \/ /\ last = Idle
     /\ \E index \in IndexArgs, v \in ValueArgs, rnd \in ByteSamples :
           MutateByte(g, index, v, rnd)
  \/ /\ last = Idle
     /\ \E start \in StartArgs, length \in LengthArgs, options \in OptionArgs :
           DecodeSimpleAttribute(g, start, length, options)
  \/ /\ last = Idle
     /\ \E s1 \in Start2Args, l1 \in Length2Args, s2 \in Start2Args, l2 \in Length2Args,
           m \in MaxValueArgs :
           DecodeInteractingGenes(g, s1, l1, s2, l2, m)
  \/ Return

Spec == Init /\ [][Next]_vars

-----------------------------------------------------------------------------
(* Properties of the Genome and of the decoders, under Spec *)

\* whether (start, length) names a segment inside data
ValidSegment(data, start, length) ==
  /\ 0 <= start
  /\ start < Len(data)
  /\ length > 0
  /\ start + length <= Len(data)

\* the sum of the bytes data[start], ..., data[start + length - 1] (Python indices)
RECURSIVE SegmentSum(_, _, _)
SegmentSum(data, start, length) ==
  IF length <= 0 THEN 0 ELSE data[start + length] + SegmentSum(data, start, length - 1)

\* the buffer the last call was made on
LastData == heap[last.self]

\* C1: a get_gene call with 0 <= start < len(data), length > 0 and
\* start + length <= len(data) returns exactly length bytes, byte k of the
\* result being data[start + k]
C1_GetGeneReturnsSlice ==
  last.op = "get_gene" /\ ValidSegment(LastData, last.args[1], last.args[2]) =>
    /\ last.kind = "ok"
    /\ Len(last.value) = last.args[2]
    /\ \A k \in 0..(last.args[2] - 1) : last.value[k + 1] = LastData[last.args[1] + k + 1]

\* a get_gene call that returned a segment of two bytes or more, not from the start
C1_Witness ==
  /\ last.op = "get_gene"
  /\ last.kind = "ok"
  /\ last.args[1] > 0
  /\ last.args[2] >= 2
  /\ last.value[1] # last.value[2]

\* C2: a get_gene call with start < 0, start >= len(data), length <= 0 or
\* start + length > len(data) fails with IndexError and returns no bytes, on
\* the empty buffer too, and every zero-length request fails
C2_GetGeneOutOfRange ==
  last.op = "get_gene" /\ ~ValidSegment(LastData, last.args[1], last.args[2]) =>
    /\ last.kind = "IndexError"
    /\ last.value = <<>>

\* a zero-length request with start in bounds that failed
C2_Witness ==
  /\ last.op = "get_gene"
  /\ last.args[2] = 0
  /\ 0 <= last.args[1]
  /\ last.args[1] < Len(LastData)
  /\ last.kind = "IndexError"

\* C3: mutate_byte(index, value) with index in [0, len(data)) and value in
\* [0, 255] leaves data[index] = value, the length as it was and every other
\* byte as it was
C3_MutateByteSetsOneByte ==
  [][last'.op = "mutate_byte" =>
      LET self  == last'.self
          index == last'.args[1]
          value == last'.args[2]
      IN  (0 <= index /\ index < Len(heap[self]) /\ value # None
             /\ 0 <= value[1] /\ value[1] <= 255) =>
            /\ last'.kind = "ok"
            /\ Len(heap'[self]) = Len(heap[self])
            /\ heap'[self][index + 1] = value[1]
            /\ \A k \in 1..Len(heap[self]) : k # index + 1 => heap'[self][k] = heap[self][k]]_vars

\* an explicit mutation of a buffer of two bytes or more went through
C3_Witness ==
  /\ last.op = "mutate_byte"
  /\ last.kind = "ok"
  /\ last.args[2] # None
  /\ Len(LastData) >= 2
  /\ LastData[last.args[1] + 1] = last.args[2][1]
  /\ \E k \in 1..Len(LastData) : LastData[k] # last.args[2][1]

\* C4 as stated: an index outside [0, len(data)) fails with IndexError, an
\* explicit value outside [0, 255] fails with ValueError, and the buffer is
\* unchanged in both cases
C4_AsStated ==
  [][last'.op = "mutate_byte" =>
      LET self  == last'.self
          index == last'.args[1]
          value == last'.args[2]
      IN  /\ ~(0 <= index /\ index < Len(heap[self])) =>
                last'.kind = "IndexError" /\ heap' = heap
          /\ (value # None /\ ~(0 <= value[1] /\ value[1] <= 255)) =>
                last'.kind = "ValueError" /\ heap' = heap]_vars

\* C4 (amended): an index outside [0, len(data)) fails with IndexError, whatever
\* the value; an explicit value outside [0, 255] at an index inside the buffer
\* fails with ValueError; the buffer is unchanged in both cases
C4_MutateByteFailsClean ==
  [][last'.op = "mutate_byte" =>
      LET self  == last'.self
          index == last'.args[1]
          value == last'.args[2]
          inside == 0 <= index /\ index < Len(heap[self])
      IN  /\ ~inside => last'.kind = "IndexError" /\ heap' = heap
          /\ (inside /\ value # None /\ ~(0 <= value[1] /\ value[1] <= 255)) =>
                last'.kind = "ValueError" /\ heap' = heap]_vars

\* a mutate_byte call with both the index and the value out of range has failed
C4_Witness ==
  /\ last.op = "mutate_byte"
  /\ ~(0 <= last.args[1] /\ last.args[1] < Len(LastData))
  /\ last.args[2] # None
  /\ ~(0 <= last.args[2][1] /\ last.args[2][1] <= 255)
  /\ last.kind = "IndexError"

\* C5: with non-empty options and a segment get_gene accepts,
\* decode_simple_attribute returns options[S mod |options|], S being the sum of
\* the segment's bytes; the label is a member of options and is a function of
\* the bytes, the coordinates and the options alone
C5_DecodeSimpleIsSumModOptions ==
  last.op = "decode_simple_attribute" =>
    LET start   == last.args[1]
        length  == last.args[2]
        options == last.args[3]
        S       == SegmentSum(LastData, start, length)
    IN  (options # <<>> /\ get_gene(LastData, start, length).kind = "ok") =>
          /\ last.kind = "return"
          /\ last.value = Some(options[(S % Len(options)) + 1])
          /\ \E i \in 1..Len(options) : last.value = Some(options[i])

\* a decode whose byte sum exceeds both a byte and the number of options
C5_Witness ==
  /\ last.op = "decode_simple_attribute"
  /\ last.value # None
  /\ Len(last.args[3]) > 1
  /\ SegmentSum(LastData, last.args[1], last.args[2]) > MaxByte
  /\ last.value # Some(last.args[3][1])

\* C6: with max_value > 0 and two segments get_gene accepts,
\* decode_interacting_genes returns (sum1 * sum2) mod max_value, the product
\* taken in the integers, so the result is in [0, max_value) and is 0 when
\* either sum is 0
C6_DecodeInteractingIsProductMod ==
  last.op = "decode_interacting_genes" =>
    LET sum1 == SegmentSum(LastData, last.args[1], last.args[2])
        sum2 == SegmentSum(LastData, last.args[3], last.args[4])
        max_value == last.args[5]
    IN  (/\ max_value > 0
         /\ get_gene(LastData, last.args[1], last.args[2]).kind = "ok"
         /\ get_gene(LastData, last.args[3], last.args[4]).kind = "ok") =>
          /\ last.kind = "return"
          /\ last.value = Some((sum1 * sum2) % max_value)
          /\ 0 <= last.value[1] /\ last.value[1] < max_value
          /\ (sum1 = 0 \/ sum2 = 0) => last.value = Some(0)

\* a decode whose product does not fit 16 bits and whose result is not 0
C6_Witness ==
  /\ last.op = "decode_interacting_genes"
  /\ last.value # None
  /\ last.value # Some(0)
  /\ SegmentSum(LastData, last.args[1], last.args[2])
       * SegmentSum(LastData, last.args[3], last.args[4]) >= 65536

\* C7: the decoders always return: decode_simple_attribute returns None exactly
\* when options is empty or get_gene fails, decode_interacting_genes returns None
\* exactly when max_value <= 0 or one of its get_gene calls fails
C7_DecodersFailSoft ==
  /\ last.op = "decode_simple_attribute" =>
       /\ last.kind = "return"
       /\ last.value = None <=>
            \/ last.args[3] = <<>>
            \/ get_gene(LastData, last.args[1], last.args[2]).kind # "ok"
  /\ last.op = "decode_interacting_genes" =>
       /\ last.kind = "return"
       /\ last.value = None <=>
            \/ last.args[5] <= 0
            \/ get_gene(LastData, last.args[1], last.args[2]).kind # "ok"
            \/ get_gene(LastData, last.args[3], last.args[4]).kind # "ok"

\* a decoder returned None because get_gene refused the segment
C7_Witness ==
  /\ last.op = "decode_simple_attribute"
  /\ last.args[3] # <<>>
  /\ get_gene(LastData, last.args[1], last.args[2]).kind = "IndexError"
  /\ last.kind = "return"
  /\ last.value = None

-----------------------------------------------------------------------------
(* Organism: the caller either builds a Genome and hands it to Organism(), or  *)
(* lets Organism() make its own; then mutations of the genome and re-decoding. *)

\* genome_size arguments
SizeArgs == -1..MaxOrgLen

\* index arguments of mutate_byte
OrgIndexArgs == -1..MaxOrgLen

\* new_byte_value arguments of mutate_byte
OrgValueArgs == {None} \cup {Some(v) : v \in OrgByteSamples \cup {MaxByte + 1}}

\* what os.urandom can hand out; it is asked only when no instance is passed
Entropy(genome_instance) ==
  IF genome_instance = None THEN SeqsOfLen(OrgByteSamples, MaxOrgLen) ELSE {<<>>}

\* the genome_instance the caller passes: its own Genome when it has built one
InstanceArgs == IF g = 0 THEN {None} ELSE {Some(g)}

\* either g = Genome(data = d), or no Genome yet
InitOrg ==
  /\ \/ /\ g = 1
        /\ \E d \in SeqsUpTo(OrgByteSamples, MaxOrgLen) :
              heap = <<GenomeInit(0, Some(d), <<>>).data>>
     \/ /\ g = 0
        /\ heap = <<>>
  /\ org = NoOrg
  /\ last = Idle

NextOrg ==
  \/ /\ last = Idle
     /\ ~org.alive
     /\ \E size \in SizeArgs, inst \in InstanceArgs :
           \E entropy \in Entropy(inst) : NewOrganism(size, inst, entropy)
  \/ DecodeAttributes
  \/ /\ last = Idle
     /\ org.alive
     /\ \E self \in Objects, index \in OrgIndexArgs, v \in OrgValueArgs, rnd \in OrgByteSamples :
           MutateByte(self, index, v, rnd)
  \/ Return

SpecOrg == InitOrg /\ [][NextOrg]_vars

-----------------------------------------------------------------------------
(* Properties of the Organism, under SpecOrg *)

\* whether attributes is the trait map of the bytes data: color decoded from
\* bytes 0..3 over the ten colours, size from bytes 4..5 and 6..7 modulo 100
TraitsAre(attributes, data) ==
  /\ DOMAIN attributes = {"color", "size"}
  /\ attributes["color"] = Some(COLOR_OPTIONS[(SegmentSum(data, 0, 4) % 10) + 1])
  /\ attributes["size"] = Some((SegmentSum(data, 4, 2) * SegmentSum(data, 6, 2)) % 100)

\* C8: Organism(genome_size, genome_instance) with a Genome instance: shorter
\* than 8 bytes, the call fails with ValueError, there is no Organism and the
\* genome is as it was; otherwise the call succeeds, org.genome is that very
\* object, its bytes are as they were whatever genome_size is, and the trait
\* map is decoded from it
C8_OrganismFromInstance ==
  [][(last'.op = "Organism" /\ last'.args[2] # None) =>
      LET instance == last'.args[2][1]
      IN  /\ heap' = heap
          /\ IF Len(heap[instance]) < 8
             THEN /\ last'.kind = "ValueError"
                  /\ ~org'.alive
             ELSE /\ last'.kind = "ok"
                  /\ org'.alive
                  /\ org'.genome = instance
                  /\ TraitsAre(org'.attributes, heap[instance])]_vars

\* an Organism built on the caller's Genome of more than 8 bytes, with a
\* genome_size that is not the length of that Genome
C8_Witness ==
  /\ last.op = "Organism"
  /\ last.kind = "ok"
  /\ last.args[2] = Some(g)
  /\ org.alive
  /\ org.genome = g
  /\ Len(heap[g]) > 8
  /\ last.args[1] < 8

\* C9: Organism(genome_size) without an instance never fails: the Organism owns
\* a Genome created by the call, of length max(genome_size, 8)
C9_OrganismFreshGenome ==
  [][(last'.op = "Organism" /\ last'.args[2] = None) =>
      /\ last'.kind = "ok"
      /\ org'.alive
      /\ Len(heap') = Len(heap) + 1
      /\ org'.genome = Len(heap')
      /\ \A id \in 1..Len(heap) : heap'[id] = heap[id]
      /\ Len(heap'[org'.genome]) = Max(last'.args[1], 8)]_vars

\* an Organism built with a negative genome_size owns a Genome of 8 bytes
C9_Witness ==
  /\ last.op = "Organism"
  /\ last.args[2] = None
  /\ last.args[1] < 0
  /\ last.kind = "ok"
  /\ org.alive
  /\ Len(heap[org.genome]) = 8

\* C10: a mutate_byte call on the Organism's genome leaves the trait map as it
\* was, and right after a decode_attributes call the trait map is the one of the
\* current bytes, with nothing else in it
C10_NoAutomaticInvalidation ==
  [][/\ (last'.op = "mutate_byte" /\ org.alive /\ last'.self = org.genome) =>
          org' = org
     /\ last'.op = "decode_attributes" =>
          /\ last'.kind = "ok"
          /\ org'.genome = org.genome
          /\ TraitsAre(org'.attributes, heap'[org'.genome])]_vars

\* the genome the Organism shares with the caller was mutated and the trait
\* map still shows the traits of the bytes before the mutation
C10_Witness ==
  /\ last.op = "mutate_byte"
  /\ last.kind = "ok"
  /\ org.alive
  /\ g = org.genome
  /\ last.self = org.genome
  /\ DOMAIN org.attributes = {"color", "size"}
  /\ ~TraitsAre(org.attributes, heap[org.genome])

\* C11: a decode_attributes call leaves the genome's bytes and length alone, and
\* a second call right after it, no mutation in between, leaves the same trait
\* map: same keys, same values
C11_DecodeAttributesIdempotent ==
  [][last'.op = "decode_attributes" =>
      LET again == decode_attributes(heap'[org'.genome], org'.attributes)
      IN  /\ heap' = heap
          /\ org'.genome = org.genome
          /\ again.kind = last'.kind
          /\ DOMAIN again.attributes = DOMAIN org'.attributes
          /\ \A key \in DOMAIN org'.attributes : again.attributes[key] = org'.attributes[key]]_vars

\* a decode_attributes call has decoded a size that is not 0 and a colour that
\* is not the first one
C11_Witness ==
  /\ last.op = "decode_attributes"
  /\ org.alive
  /\ "size" \in DOMAIN org.attributes
  /\ org.attributes["size"] # None
  /\ org.attributes["size"] # Some(0)
  /\ org.attributes["color"] # Some("red")

-----------------------------------------------------------------------------
(* The worked example of the tests: an Organism on the genome                  *)
(* [0, 1, 2, 3, 10, 11, 20, 21], one mutation at a time, each followed by      *)
(* decode_attributes.                                                          *)

\* custom_data of test_organism_creation_with_provided_genome
ExampleData == <<0, 1, 2, 3, 10, 11, 20, 21>>

\* custom_data followed by zero bytes up to n bytes, as in organism.py's demo
ExampleDataOfLen(n) == [k \in 1..n |-> IF k <= Len(ExampleData) THEN ExampleData[k] ELSE 0]

\* new_byte_value arguments of the example's mutations
ExampleValueArgs == {Some(MaxByte)}

\* whether the trait map is the one decode_attributes leaves on the current bytes
MapIsCurrent ==
  /\ org.alive
  /\ decode_attributes(heap[org.genome], org.attributes).attributes = org.attributes

\* custom_genome = Genome(data = custom_data)
InitExample ==
  /\ g = 1
  /\ \E n \in Len(ExampleData)..MaxOrgLen :
        heap = <<GenomeInit(0, Some(ExampleDataOfLen(n)), <<>>).data>>
  /\ org = NoOrg
  /\ last = Idle

NextExample ==
  \/ /\ last = Idle
     /\ ~org.alive
     /\ \E size \in SizeArgs : NewOrganism(size, Some(g), <<>>)
  \/ DecodeAttributes
  \/ /\ last = Idle
     /\ MapIsCurrent
     /\ \E index \in OrgIndexArgs, v \in ExampleValueArgs :
           MutateByte(org.genome, index, v, MaxByte)
  \/ Return

SpecExample == InitExample /\ [][NextExample]_vars

\* C12: after mutate_byte(i, v) and decode_attributes, the size is the one before
\* the mutation when i is in [0, 4) or i >= 8, the colour is the one before the
\* mutation when i >= 4, and for i in [0, 4) the colour is
\* COLOR_OPTIONS[(new sum of bytes 0..3) mod 10]; the bytes
\* [0, 1, 2, 3, 10, 11, 20, 21] give pink and 61, and green and 61 after
\* mutate_byte(0, 255)
C12_TraitDependsOnOwnSegment ==
  [][(last'.op = "mutate_byte" /\ last'.kind = "ok" /\ org.alive
        /\ last'.self = org.genome) =>
      LET i      == last'.args[1]
          v      == last'.args[2]
          old    == org.attributes
          new    == decode_attributes(heap'[org'.genome], org'.attributes).attributes
          bytes  == heap'[org'.genome]
      IN  /\ (0 <= i /\ i < 4) \/ i >= 8 => new["size"] = old["size"]
          /\ i >= 4 => new["color"] = old["color"]
          /\ (0 <= i /\ i < 4) =>
                new["color"] = Some(COLOR_OPTIONS[(SegmentSum(bytes, 0, 4) % 10) + 1])
          /\ heap[org.genome] = <<0, 1, 2, 3, 10, 11, 20, 21>> =>
                /\ old["color"] = Some("pink")
                /\ old["size"] = Some(61)
                /\ (i = 0 /\ v = Some(255)) =>
                      new["color"] = Some("green") /\ new["size"] = Some(61)]_vars

\* mutate_byte(0, 255) has been made on the example genome and the trait map
\* still reads pink and 61
C12_Witness ==
  /\ last.op = "mutate_byte"
  /\ last.kind = "ok"
  /\ last.args = <<0, Some(255)>>
  /\ org.alive
  /\ heap[org.genome] = <<255, 1, 2, 3, 10, 11, 20, 21>>
  /\ org.attributes["color"] = Some("pink")
  /\ org.attributes["size"] = Some(61)

-----------------------------------------------------------------------------
(* Everything together: the Organism sessions of SpecOrg, with get_gene and    *)
(* the two decoders called on the genomes as well.                             *)

\* (start, length) arguments: the Organism's three segments and one past the end
SegmentArgs ==
  {<<COLOR_GENE_START, COLOR_GENE_LENGTH>>, <<SIZE_GENE1_START, SIZE_GENE1_LENGTH>>,
   <<SIZE_GENE2_START, SIZE_GENE2_LENGTH>>, <<MaxOrgLen - 1, SIZE_GENE2_LENGTH>>}

\* the two segments of a decode_interacting_genes call: the Organism's own two,
\* and each of them next to the segment past the end
SegmentPairArgs ==
  {<<<<SIZE_GENE1_START, SIZE_GENE1_LENGTH>>, <<SIZE_GENE2_START, SIZE_GENE2_LENGTH>>>>,
   <<<<SIZE_GENE2_START, SIZE_GENE2_LENGTH>>, <<MaxOrgLen - 1, SIZE_GENE2_LENGTH>>>>,
   <<<<MaxOrgLen - 1, SIZE_GENE2_LENGTH>>, <<SIZE_GENE1_START, SIZE_GENE1_LENGTH>>>>}

\* attribute_options arguments
AllOptionArgs == {<<>>, COLOR_OPTIONS}

\* max_value arguments
AllMaxValueArgs == {0, SIZE_MAX_VALUE}

NextAll ==
  \/ NextOrg
  \/ /\ last = Idle
     /\ \E self \in Objects, seg \in SegmentArgs : GetGene(self, seg[1], seg[2])
  \/ /\ last = Idle
     /\ \E self \in Objects, seg \in SegmentArgs, options \in AllOptionArgs :
           DecodeSimpleAttribute(self, seg[1], seg[2], options)
  \/ /\ last = Idle
     /\ \E self \in Objects, segs \in SegmentPairArgs, m \in AllMaxValueArgs :
           DecodeInteractingGenes(self, segs[1][1], segs[1][2], segs[2][1], segs[2][2], m)

SpecAll == InitOrg /\ [][NextAll]_vars

\* C14: whatever is called (get_gene, mutate_byte with or without a value,
\* succeeding or failing, the decoders, decode_attributes, Organism()), every
\* Genome keeps the length it was created with and holds only bytes in [0, 255]
C14_GenomeShape ==
  [][/\ \A id \in 1..Len(heap) :
          /\ id \in 1..Len(heap')
          /\ Len(heap'[id]) = Len(heap[id])
     /\ \A id \in 1..Len(heap) : \A k \in 1..Len(heap[id]) : heap[id][k] \in 0..255
     /\ \A id \in 1..Len(heap') : \A k \in 1..Len(heap'[id]) : heap'[id][k] \in 0..255]_vars

\* a mutate_byte call with the value 256 on the Organism's genome has failed
C14_Witness ==
  /\ last.op = "mutate_byte"
  /\ last.args[2] = Some(256)
  /\ last.kind = "ValueError"
  /\ org.alive
  /\ last.self = org.genome
  /\ \E k \in 1..Len(heap[org.genome]) : heap[org.genome][k] = 255

\* C15: a constructed Organism, whichever way it was built and whatever
\* mutate_byte and decode_attributes calls followed, owns a genome of 8 bytes or
\* more and a trait map with exactly the keys color and size, color being one of
\* the ten colours and size an integer in [0, 100); neither is ever None
C15_OrganismInvariant ==
  org.alive =>
    /\ org.genome \in 1..Len(heap)
    /\ Len(heap[org.genome]) >= 8
    /\ DOMAIN org.attributes = {"color", "size"}
    /\ org.attributes["color"] # None
    /\ org.attributes["color"][1] \in
         {"red", "green", "blue", "yellow", "purple", "orange", "pink", "brown", "black",
          "white"}
    /\ Len(COLOR_OPTIONS) = 10
    /\ \E i \in 1..Len(COLOR_OPTIONS) : org.attributes["color"] = Some(COLOR_OPTIONS[i])
    /\ org.attributes["size"] # None
    /\ org.attributes["size"][1] \in 0..99

\* an Organism that made its own genome of 8 bytes has had it mutated, its
\* trait map not yet decoded again
C15_Witness ==
  /\ org.alive
  /\ g = 0
  /\ Len(heap[org.genome]) = 8
  /\ last.op = "mutate_byte"
  /\ last.kind = "ok"
  /\ ~TraitsAre(org.attributes, heap[org.genome])

====
